---- MODULE Spec2Model ----
(***************************************************************************)
(* A model of ds231/linkedin-automation: LinkedInConnector                 *)
(* (src/linkedin-modules.py).  Text is a sequence of Unicode code points,  *)
(* so that the sanitizer, the truncation and the prefix tests are computed *)
(* and not assumed.                                                        *)
(***************************************************************************)
EXTENDS Integers, Sequences, FiniteSets, TLC

\* ------------------------------------------------------------------ bounds

\* Longest text enumerated exhaustively over Alphabet.
MaxTextLen == 4

\* Longest unit that is repeated to build the long backend responses.
MaxUnitLen == 2

\* Long responses have raw lengths up to this many characters past the limit
\* (and past twice the limit).
MaxOver == 1

\* ------------------------------------------------------------------- text

\* LinkedIn's note limit: len(cleaned_note) > 200, cleaned_note[:200].
NoteLimit == 200

\* The last code point of the Basic Multilingual Plane: [^\u0000-\uFFFF].
LastBMP == 65535

\* The code points for which Python's str.isspace() holds: str.split() and
\* str.strip() without arguments split and strip on exactly these.
PyWhitespace ==
    {9, 10, 11, 12, 13, 28, 29, 30, 31, 32, 133, 160, 5760} \cup (8192..8202)
        \cup {8232, 8233, 8239, 8287, 12288}

IsSpace(c) == c \in PyWhitespace

\* ' ': the separator of ' '.join(...).
SpaceChar == 32

\* re.sub(r'[^\u0000-\uFFFF]', '', text)
RemoveNonBMP(text) == SelectSeq(text, LAMBDA c : c >= 0 /\ c <= LastBMP)

\* text.split(): the maximal runs of non-whitespace characters, in order.
\* The n-th token runs from the n-th index that starts a run to the n-th index
\* that ends one.
Indices(text) == [i \in 1..Len(text) |-> i]

TokenStarts(text) ==
    SelectSeq(Indices(text),
              LAMBDA i : ~IsSpace(text[i]) /\ (i = 1 \/ IsSpace(text[i - 1])))

TokenEnds(text) ==
    SelectSeq(Indices(text),
              LAMBDA i : ~IsSpace(text[i])
                            /\ (i = Len(text) \/ IsSpace(text[i + 1])))

Split(text) ==
    LET starts == TokenStarts(text)
        ends == TokenEnds(text)
    IN  [n \in 1..Len(starts) |-> SubSeq(text, starts[n], ends[n])]

\* sep.join(tokens): the tokens lo..hi with sep between neighbours.
RECURSIVE JoinRange(_, _, _, _)
JoinRange(tokens, sep, lo, hi) ==
    IF lo > hi THEN <<>>
    ELSE IF lo = hi THEN tokens[lo]
    ELSE LET mid == (lo + hi) \div 2
         IN  JoinRange(tokens, sep, lo, mid) \o sep
                \o JoinRange(tokens, sep, mid + 1, hi)

Join(tokens, sep) == JoinRange(tokens, sep, 1, Len(tokens))

\* clean_text without the whitespace normalisation.
clean_text_no_collapse(text) == RemoveNonBMP(text)

\* LinkedInConnector.clean_text
clean_text(text) == Join(Split(RemoveNonBMP(text)), <<SpaceChar>>)

\* str.strip(): leading and trailing whitespace removed.
Strip(text) ==
    LET keep == {i \in 1..Len(text) : ~IsSpace(text[i])}
    IN  IF keep = {} THEN <<>>
        ELSE LET lo == CHOOSE i \in keep : \A j \in keep : i <= j
                 hi == CHOOSE i \in keep : \A j \in keep : i >= j
             IN  SubSeq(text, lo, hi)

\* s[:n]
Take(s, n) == SubSeq(s, 1, IF Len(s) < n THEN Len(s) ELSE n)

\* "Hi, I'd love to connect and expand our professional network."
FallbackNote ==
    <<72, 105, 44, 32, 73, 39, 100, 32, 108, 111, 118, 101, 32, 116, 111, 32,
      99, 111, 110, 110, 101, 99, 116, 32, 97, 110, 100, 32, 101, 120, 112,
      97, 110, 100, 32, 111, 117, 114, 32, 112, 114, 111, 102, 101, 115, 115,
      105, 111, 110, 97, 108, 32, 110, 101, 116, 119, 111, 114, 107, 46>>

\* response.status_code == 200
StatusOK == 200

\* cleaned_note[:200] with the slice dropped.
TruncateNone(s) == s

\* cleaned_note[:200]
Truncate(s) == Take(s, NoteLimit)

\* len(cleaned_note) > 200 written as >=.
LengthExceededAtLimit(s) == Len(s) >= NoteLimit

\* len(cleaned_note) > 200: the condition of the truncation warning.
LengthExceeded(s) == Len(s) > NoteLimit

\* What the generation service answers to requests.post: the connection fails
\* (requests raises), or an HTTP reply with a status and a body.  A body is
\* "text" (a JSON object whose 'response' is the string `response`),
\* "noresponse" (a JSON object without 'response'), "nonstring" (its
\* 'response' is not a string) or "notjson" (response.json() raises).
Unreachable == [kind |-> "unreachable"]

HttpReply(status, body, response) ==
    [kind |-> "http", status |-> status, body |-> body, response |-> response]

BodyKinds == {"text", "noresponse", "nonstring", "notjson"}

RepliesWith(response) ==
    {Unreachable}
        \cup {HttpReply(st, b, IF b = "text" THEN response ELSE <<>>) :
                st \in {StatusOK, 500}, b \in BodyKinds}

\* The body of the try block of generate_connection_note: exc says that a
\* statement of it raised, requested that requests.post was called.
GenerateTry(profile_data, reply) ==
    IF ~({"name", "current_position"} \subseteq DOMAIN profile_data)
    THEN [exc |-> TRUE, requested |-> FALSE]            \* KeyError in the prompt
    ELSE IF reply.kind = "unreachable"
    THEN [exc |-> TRUE, requested |-> TRUE]             \* requests.post raises
    ELSE IF reply.status = StatusOK
    THEN IF reply.body \in {"notjson", "nonstring"}
         THEN [exc |-> TRUE, requested |-> TRUE]        \* .json() or .strip() raises
         ELSE LET note == Strip(IF reply.body = "text" THEN reply.response
                                                       ELSE <<>>)
                  cleaned_note == clean_text(note)
              IN  [exc |-> FALSE, requested |-> TRUE,
                   note |-> Truncate(cleaned_note),
                   warned |-> LengthExceeded(cleaned_note)]
    ELSE [exc |-> FALSE, requested |-> TRUE, note |-> FallbackNote,
          warned |-> FALSE]

\* generate_connection_note with the handler re-raising.
generate_connection_note_reraise(profile_data, reply) ==
    LET r == GenerateTry(profile_data, reply)
    IN  IF r.exc
        THEN [note |-> <<>>, warned |-> FALSE, raised |-> TRUE,
              requested |-> r.requested]
        ELSE [note |-> r.note, warned |-> r.warned, raised |-> FALSE,
              requested |-> r.requested]

\* LinkedInConnector.generate_connection_note: the try block, and the handler
\* of `except Exception` that returns the fallback note.
generate_connection_note(profile_data, reply) ==
    LET r == GenerateTry(profile_data, reply)
    IN  IF r.exc
        THEN [note |-> FallbackNote, warned |-> FALSE, raised |-> FALSE,
              requested |-> r.requested]
        ELSE [note |-> r.note, warned |-> r.warned, raised |-> FALSE,
              requested |-> r.requested]

\* ----------------------------------------------------------- text inputs

\* 'a', ' ', '\n', U+FFFF (the last BMP code point), U+10000 (the first
\* code point outside the BMP).
Alphabet == {97, 32, 10, 65535, 65536}

SeqsUpTo(S, n) == UNION {[1..k -> S] : k \in 0..n}

\* unit repeated to exactly n characters.
Repeat(unit, n) == [i \in 1..n |-> unit[((i - 1) % Len(unit)) + 1]]

LongLens ==
    ((NoteLimit - 1)..(NoteLimit + MaxOver))
        \cup ((2 * NoteLimit - 1)..(2 * NoteLimit + MaxOver))

LongTexts ==
    {Repeat(u, n) : u \in SeqsUpTo(Alphabet, MaxUnitLen) \ {<<>>}, n \in LongLens}

Texts == SeqsUpTo(Alphabet, MaxTextLen) \cup LongTexts

\* Profiles as json.load gives them: dicts that may lack a key.
GenProfiles ==
    {[name |-> "Jane Doe", current_position |-> "Engineer"],
     [name |-> "Jane Doe"],
     [current_position |-> "Engineer"]}

\* ---------------------------------------------------------------- the run

\* The most elements a find_elements or wait.until call returns.
MaxButtons == 2

\* The most profiles in profile_data.json.
MaxProfiles == 2

\* max_attempts = 3
max_attempts == 3

\* len(possible_textareas)
NumTextareaSelectors == 6

\* len(possible_selectors) of find_and_click_send_button
NumSendSelectors == 5

\* random.uniform(20, 40)
DelayMin == 20

DelayMax == 40

\* random.uniform(a, b): a value of [a, b]; the ends and the middle stand for it.
RandomUniform(a, b) == {a, (a + b) \div 2, b}

\* "http"
HttpPrefix == <<104, 116, 116, 112>>

\* "https://"
HttpsScheme == <<104, 116, 116, 112, 115, 58, 47, 47>>

\* "feed"
Feed == <<102, 101, 101, 100>>

\* "mynetwork"
MyNetwork == <<109, 121, 110, 101, 116, 119, 111, 114, 107>>

\* "https://www.linkedin.com/feed/"
FeedUrl ==
    <<104, 116, 116, 112, 115, 58, 47, 47, 119, 119, 119, 46, 108, 105, 110,
      107, 101, 100, 105, 110, 46, 99, 111, 109, 47, 102, 101, 101, 100, 47>>

\* "https://www.linkedin.com/mynetwork/"
MyNetworkUrl ==
    <<104, 116, 116, 112, 115, 58, 47, 47, 119, 119, 119, 46, 108, 105, 110,
      107, 101, 100, 105, 110, 46, 99, 111, 109, 47, 109, 121, 110, 101, 116,
      119, 111, 114, 107, 47>>

\* "https://www.linkedin.com/login"
LoginUrl ==
    <<104, 116, 116, 112, 115, 58, 47, 47, 119, 119, 119, 46, 108, 105, 110,
      107, 101, 100, 105, 110, 46, 99, 111, 109, 47, 108, 111, 103, 105, 110>>

\* "https://www.linkedin.com/checkpoint/challenge"
CheckpointUrl ==
    <<104, 116, 116, 112, 115, 58, 47, 47, 119, 119, 119, 46, 108, 105, 110,
      107, 101, 100, 105, 110, 46, 99, 111, 109, 47, 99, 104, 101, 99, 107,
      112, 111, 105, 110, 116, 47, 99, 104, 97, 108, 108, 101, 110, 103, 101>>

\* "linkedin.com/in/janedoe"
BareUrl ==
    <<108, 105, 110, 107, 101, 100, 105, 110, 46, 99, 111, 109, 47, 105, 110,
      47, 106, 97, 110, 101, 100, 111, 101>>

\* "https://linkedin.com/in/bob"
AbsoluteUrl ==
    <<104, 116, 116, 112, 115, 58, 47, 47, 108, 105, 110, 107, 101, 100, 105,
      110, 46, 99, 111, 109, 47, 105, 110, 47, 98, 111, 98>>

\* "Hi Jane!  Let's connect."
SampleNote ==
    <<72, 105, 32, 74, 97, 110, 101, 33, 32, 32, 76, 101, 116, 39, 115, 32,
      99, 111, 110, 110, 101, 99, 116, 46>>

\* s.startswith(prefix)
StartsWith(s, prefix) ==
    Len(s) >= Len(prefix) /\ SubSeq(s, 1, Len(prefix)) = prefix

\* sub in s
Contains(s, sub) ==
    \E i \in 1..(Len(s) - Len(sub) + 1) : SubSeq(s, i, i + Len(sub) - 1) = sub

\* if not profile_url.startswith('http'): profile_url = f"https://{profile_url}"
NormalizeUrl(profile_url) ==
    IF ~StartsWith(profile_url, HttpPrefix) THEN HttpsScheme \o profile_url
    ELSE profile_url

\* Only the feed fragment is looked for.
IsLandingUrlFeedOnly(current_url) == Contains(current_url, Feed)

\* "feed" in current_url or "mynetwork" in current_url
IsLandingUrl(current_url) ==
    Contains(current_url, Feed) \/ Contains(current_url, MyNetwork)

\* The URLs the browser may show after the credentials were submitted.
LandingUrls == {FeedUrl, MyNetworkUrl, LoginUrl, CheckpointUrl}

\* The entries profile_data.json may hold: complete ones, with a bare or an
\* absolute url, and ones that lack a key.
ProfileKinds ==
    {[name |-> "Jane Doe", url |-> BareUrl, current_position |-> "Engineer"],
     [name |-> "Bob", url |-> AbsoluteUrl],
     [url |-> BareUrl, current_position |-> "Engineer"],
     [name |-> "Jane Doe", current_position |-> "Engineer"]}

ProfileLists == SeqsUpTo(ProfileKinds, MaxProfiles)

\* What the generation service may answer during a run.
RunReplies == RepliesWith(SampleNote)

\* The variables of the note pipeline taken alone.
VARIABLES nPc, nText, nProfile, nReply, nOnce, nTwice, nGen

nvars == <<nPc, nText, nProfile, nReply, nOnce, nTwice, nGen>>

NoGen == [note |-> <<>>, warned |-> FALSE, raised |-> FALSE, requested |-> FALSE]

VARIABLES
    pc,           \* where the program stands
    driver,       \* self.driver: "none" (None), "live", or "quit" (set, after quit())
    quits,        \* calls of self.driver.quit()
    opAfterQuit,  \* a driver operation was performed on a driver already quit
    loginResult,  \* what login() returned: "none" before it returns
    loginSeen,    \* what the login() that just returned met: the current_url it
                  \* read and whether a statement raised; cleared when run goes on
    profiles,     \* json.load(f)
    idx,          \* the position of `profile` in profiles (0 before the loop)
    connectCalls, \* calls of connect_with_profile, as the indices of their profiles
    navs,         \* calls of self.driver.get(profile_url)
    pauses,       \* calls of time.sleep(delay)
    delay,        \* the delay of the pause being slept (0: none)
    runExc,       \* the handler of run's `except Exception` ran
    c             \* the locals of the current connect_with_profile call

\* login() has not returned, or run has gone on to the profiles.
NoLoginSeen == [current_url |-> <<>>, raised |-> FALSE]

rvars ==
    <<pc, driver, quits, opAfterQuit, loginResult, loginSeen, profiles, idx,
      connectCalls, navs, pauses, delay, runExc, c>>

vars == <<rvars, nvars>>

\* The locals of connect_with_profile and of the helpers it calls, before the
\* call: result is its return value ("none" while it runs or was never called).
NoCall ==
    [profile_url |-> <<>>,  \* the url given to self.driver.get
     nb |-> 0,              \* len(connect_buttons)
     bi |-> 0,              \* the position of `button` in connect_buttons
     na |-> 0,              \* len(add_note_buttons)
     ai |-> 0,              \* the position of add_note_button
     note |-> <<>>,         \* note, until it is handed to the textarea
     ti |-> 0,              \* the position of `selector` in possible_textareas
     si |-> 0,              \* the position of `selector` in possible_selectors
     ns |-> 0,              \* len(buttons) in find_and_click_send_button
     sbi |-> 0,             \* the position of `button` in buttons
     attempt |-> 0,         \* attempt of click_button_safely
     action_name |-> "none",\* action_name of click_button_safely
     button_text |-> "none",\* "match": the text of the button being clicked
                            \* passed the filter of its loop
     gens |-> 0,            \* calls of generate_connection_note in this call
     requests |-> 0,        \* requests.post calls in this call
     sendClicked |-> FALSE, \* the click script ran on a send button whose
                            \* text holds 'send' or 'done'
     raised |-> FALSE,      \* a statement of this call raised an exception
     navigated |-> FALSE,   \* self.driver.get(profile_url) has returned
     steps |-> {},          \* what has been done for the connect button in
                            \* hand: "connect" and "add note" (the click
                            \* returned True), "generate", and for the
                            \* textarea in hand "value" and "event"
     sendClicks |-> 0,      \* click scripts gone through on a send button
     untried |-> 0,         \* connect buttons never clicked when the call returned
     hidden |-> 0,          \* passes of this click_button_safely call whose
                            \* is_displayed/is_enabled test was false
     excepts |-> 0,         \* passes of this click_button_safely call that raised
     clicked |-> "none",    \* what this click_button_safely call returns
     abandoned |-> "none",  \* why the connect button before this one was given
                            \* up ("add note": no add-note button was clicked)
     taMatched |-> FALSE,   \* a selector of possible_textareas located an
                            \* element in this call
     sendSearches |-> 0,    \* calls of find_and_click_send_button in this call
     result |-> "none"]

\* ------------------------------------------------- the note pipeline alone

\* The run is not started: the state of the run's variables while the note
\* pipeline is taken alone.
RunIdle ==
    /\ pc = "idle"
    /\ driver = "none"
    /\ quits = 0
    /\ opAfterQuit = FALSE
    /\ loginResult = "none"
    /\ loginSeen = NoLoginSeen
    /\ profiles = <<>>
    /\ idx = 0
    /\ connectCalls = <<>>
    /\ navs = 0
    /\ pauses = 0
    /\ delay = 0
    /\ runExc = FALSE
    /\ c = NoCall

NoteInit ==
    /\ RunIdle
    /\ nText \in Texts
    /\ nPc = "input"
    /\ nProfile = [name |-> "Jane Doe", current_position |-> "Engineer"]
    /\ nReply = Unreachable
    /\ nOnce = <<>>
    /\ nTwice = <<>>
    /\ nGen = NoGen

\* clean_text(text)
NoteClean ==
    /\ nPc = "input"
    /\ nOnce' = clean_text(nText)
    /\ nPc' = "cleaned"
    /\ UNCHANGED <<nText, nProfile, nReply, nTwice, nGen, rvars>>

\* clean_text(clean_text(text))
NoteCleanAgain ==
    /\ nPc = "cleaned"
    /\ nTwice' = clean_text(nOnce)
    /\ nPc' = "recleaned"
    /\ UNCHANGED <<nText, nProfile, nReply, nOnce, nGen, rvars>>

\* generate_connection_note(profile_data) against a service that answers reply
NoteGenerate ==
    /\ nPc = "input"
    /\ \E p \in GenProfiles, reply \in RepliesWith(nText) :
        /\ nProfile' = p
        /\ nReply' = reply
        /\ nGen' = generate_connection_note(p, reply)
    /\ nPc' = "generated"
    /\ UNCHANGED <<nText, nOnce, nTwice, rvars>>

NoteNext == NoteClean \/ NoteCleanAgain \/ NoteGenerate

SpecNote == NoteInit /\ [][NoteNext]_vars

\* ---------------------------------------------------- the url taken alone

\* The longest profile name in a url.
MaxNameLen == 2

\* "http://"
HttpScheme == <<104, 116, 116, 112, 58, 47, 47>>

\* "HTTPS://"
UpperHttpsScheme == <<72, 84, 84, 80, 83, 58, 47, 47>>

\* "linkedin.com"
LinkedInHost == <<108, 105, 110, 107, 101, 100, 105, 110, 46, 99, 111, 109>>

\* "www.linkedin.com"
WwwLinkedInHost == <<119, 119, 119, 46, 108, 105, 110, 107, 101, 100, 105, 110, 46, 99, 111, 109>>

\* "httpbin.org"
HttpbinHost == <<104, 116, 116, 112, 98, 105, 110, 46, 111, 114, 103>>

\* "/in/"
InPath == <<47, 105, 110, 47>>

\* The values of profile['url'] in the data file: with no scheme, or with
\* http or https in either case; a host; the path of a profile.
UrlPrefixes == {<<>>, HttpScheme, HttpsScheme, UpperHttpsScheme}

UrlHosts == {LinkedInHost, WwwLinkedInHost, HttpbinHost}

Urls ==
    {p \o h \o InPath \o n :
        p \in UrlPrefixes, h \in UrlHosts, n \in SeqsUpTo({97, 98}, MaxNameLen)}

UrlInit ==
    /\ RunIdle
    /\ nText \in Urls
    /\ nPc = "url"
    /\ nProfile = [name |-> "Jane Doe", current_position |-> "Engineer"]
    /\ nReply = Unreachable
    /\ nOnce = <<>>
    /\ nTwice = <<>>
    /\ nGen = NoGen

\* connect_with_profile(profile_url, ...): the url that self.driver.get is
\* given (lines 164-168).
UrlNormalize ==
    /\ nPc = "url"
    /\ nOnce' = NormalizeUrl(nText)
    /\ nPc' = "navigated"
    /\ UNCHANGED <<nText, nProfile, nReply, nTwice, nGen, rvars>>

\* connect_with_profile called on the url it has navigated to.
UrlNormalizeAgain ==
    /\ nPc = "navigated"
    /\ nTwice' = NormalizeUrl(nOnce)
    /\ nPc' = "renavigated"
    /\ UNCHANGED <<nText, nProfile, nReply, nOnce, nGen, rvars>>

UrlNext == UrlNormalize \/ UrlNormalizeAgain

SpecUrl == UrlInit /\ [][UrlNext]_vars

\* The note pipeline taken alone is not started.
NoteIdle ==
    /\ nPc = "idle"
    /\ nText = <<>>
    /\ nProfile = [name |-> "Jane Doe", current_position |-> "Engineer"]
    /\ nReply = Unreachable
    /\ nOnce = <<>>
    /\ nTwice = <<>>
    /\ nGen = NoGen

\* A driver operation: it is an operation after quit when the driver was quit.
DriverOp == opAfterQuit' = (opAfterQuit \/ driver = "quit")

NoDriverOp == UNCHANGED opAfterQuit

Init ==
    /\ pc = "setup_install"
    /\ driver = "none"
    /\ quits = 0
    /\ opAfterQuit = FALSE
    /\ loginResult = "none"
    /\ loginSeen = NoLoginSeen
    /\ profiles = <<>>
    /\ idx = 0
    /\ connectCalls = <<>>
    /\ navs = 0
    /\ pauses = 0
    /\ delay = 0
    /\ runExc = FALSE
    /\ c = NoCall
    /\ NoteIdle

\* An exception reaches run's `except Exception as e`.
RunRaises == pc' = "except"

\* ------------------------------------------------------------ setup_driver

\* service = Service(ChromeDriverManager().install())
SetupInstall ==
    /\ pc = "setup_install"
    /\ \E ok \in BOOLEAN : IF ok THEN pc' = "setup_chrome" ELSE RunRaises
    /\ NoDriverOp
    /\ UNCHANGED <<driver, quits, loginResult, loginSeen, profiles, idx, connectCalls,
                   navs, pauses, delay, runExc, c, nvars>>

\* self.driver = webdriver.Chrome(...); self.wait = WebDriverWait(...)
SetupChrome ==
    /\ pc = "setup_chrome"
    /\ \E ok \in BOOLEAN :
        IF ok THEN pc' = "setup_script" /\ driver' = "live"
        ELSE RunRaises /\ UNCHANGED driver
    /\ NoDriverOp
    /\ UNCHANGED <<quits, loginResult, loginSeen, profiles, idx, connectCalls, navs,
                   pauses, delay, runExc, c, nvars>>

\* self.driver.execute_script("Object.defineProperty(navigator, ...)")
SetupScript ==
    /\ pc = "setup_script"
    /\ \E ok \in BOOLEAN : IF ok THEN pc' = "login_get" ELSE RunRaises
    /\ DriverOp
    /\ UNCHANGED <<driver, quits, loginResult, loginSeen, profiles, idx, connectCalls,
                   navs, pauses, delay, runExc, c, nvars>>

\* ------------------------------------------------------------------ login

\* `if not self.login()` without its return: the run goes on after a failed
\* login.
LoginReturnsNoAbort(value) ==
    /\ loginResult' = (IF value THEN "true" ELSE "false")
    /\ pc' = "load"

\* login() returns value to `if not self.login()`: on False run returns, which
\* leaves only the finally block.
LoginReturns(value) ==
    /\ loginResult' = (IF value THEN "true" ELSE "false")
    /\ pc' = (IF value THEN "load" ELSE "finally")

\* The steps of login before the URL test: get, the username field, the
\* password field, the submit button.  An exception in any returns False.
LoginSteps == <<"login_get", "login_email", "login_password", "login_submit",
                "login_url">>

LoginStep ==
    /\ \E k \in 1..(Len(LoginSteps) - 1) :
        /\ pc = LoginSteps[k]
        /\ \E ok \in BOOLEAN :
            IF ok THEN pc' = LoginSteps[k + 1]
                       /\ UNCHANGED <<loginResult, loginSeen>>
            ELSE LoginReturns(FALSE)
                    /\ loginSeen' = [NoLoginSeen EXCEPT !.raised = TRUE]
    /\ DriverOp
    /\ UNCHANGED <<driver, quits, profiles, idx, connectCalls, navs, pauses,
                   delay, runExc, c, nvars>>

\* if "feed" in self.driver.current_url or "mynetwork" in self.driver.current_url
\* (the page has settled during time.sleep(5): both reads give the same URL)
LoginUrlCheck ==
    /\ pc = "login_url"
    /\ \/ \E current_url \in LandingUrls :
            /\ LoginReturns(IsLandingUrl(current_url))
            /\ loginSeen' = [NoLoginSeen EXCEPT !.current_url = current_url]
       \/ /\ LoginReturns(FALSE)          \* reading current_url raises
          /\ loginSeen' = [NoLoginSeen EXCEPT !.raised = TRUE]
    /\ DriverOp
    /\ UNCHANGED <<driver, quits, profiles, idx, connectCalls, navs, pauses,
                   delay, runExc, c, nvars>>

\* -------------------------------------------------------- the profile loop

\* with open(profile_file, 'r') as f: profiles = json.load(f)
LoadProfiles ==
    /\ pc = "load"
    /\ \/ \E ps \in ProfileLists : profiles' = ps /\ pc' = "loop"
       \/ RunRaises /\ UNCHANGED profiles
    /\ loginSeen' = NoLoginSeen
    /\ NoDriverOp
    /\ UNCHANGED <<driver, quits, loginResult, idx, connectCalls, navs, pauses,
                   delay, runExc, c, nvars>>

\* for profile in profiles: the loop ends, which leaves the finally block.
LoopEnds ==
    /\ pc = "loop"
    /\ idx >= Len(profiles)
    /\ pc' = "finally"
    /\ NoDriverOp
    /\ UNCHANGED <<driver, quits, loginResult, loginSeen, profiles, idx, connectCalls,
                   navs, pauses, delay, runExc, c, nvars>>

\* The next profile: print(profile['name']), then
\* self.connect_with_profile(profile['url'], profile) is entered, where the
\* url is normalised.  A missing key raises KeyError in run itself.
EnterProfile ==
    /\ pc = "loop"
    /\ idx < Len(profiles)
    /\ idx' = idx + 1
    /\ LET profile == profiles[idx + 1]
       IN  IF {"name", "url"} \subseteq DOMAIN profile
           THEN /\ connectCalls' = Append(connectCalls, idx + 1)
                /\ c' = [NoCall EXCEPT !.profile_url = NormalizeUrl(profile.url)]
                /\ pc' = "c_get"
           ELSE RunRaises /\ UNCHANGED <<connectCalls, c>>
    /\ NoDriverOp
    /\ UNCHANGED <<driver, quits, loginResult, loginSeen, profiles, navs, pauses, delay,
                   runExc, nvars>>

\* delay = random.uniform(20, 40); time.sleep(delay) begins
PauseBegins ==
    /\ pc = "pause"
    /\ \E d \in RandomUniform(DelayMin, DelayMax) : delay' = d
    /\ pauses' = pauses + 1
    /\ pc' = "sleeping"
    /\ NoDriverOp
    /\ UNCHANGED <<driver, quits, loginResult, loginSeen, profiles, idx, connectCalls,
                   navs, runExc, c, nvars>>

\* time.sleep(delay) returns
PauseEnds ==
    /\ pc = "sleeping"
    /\ delay' = 0
    /\ pc' = "loop"
    /\ NoDriverOp
    /\ UNCHANGED <<driver, quits, loginResult, loginSeen, profiles, idx, connectCalls,
                   navs, pauses, runExc, c, nvars>>

\* except Exception as e: print(...)
RunExcept ==
    /\ pc = "except"
    /\ runExc' = TRUE
    /\ pc' = "finally"
    /\ NoDriverOp
    /\ UNCHANGED <<driver, quits, loginResult, loginSeen, profiles, idx, connectCalls,
                   navs, pauses, delay, c, nvars>>

\* The quit at the end of the try block instead of in a finally block: it is
\* skipped when an exception was handled.
RunFinallyOnSuccess ==
    /\ pc = "finally"
    /\ IF driver # "none" /\ ~runExc
       THEN /\ DriverOp
            /\ quits' = quits + 1
            /\ driver' = "quit"
       ELSE NoDriverOp /\ UNCHANGED <<quits, driver>>
    /\ pc' = "done"
    /\ UNCHANGED <<loginResult, loginSeen, profiles, idx, connectCalls, navs, pauses,
                   delay, runExc, c, nvars>>

\* finally: if self.driver: self.driver.quit()
RunFinally ==
    /\ pc = "finally"
    /\ IF driver # "none"
       THEN /\ DriverOp
            /\ quits' = quits + 1
            /\ driver' = "quit"
       ELSE NoDriverOp /\ UNCHANGED <<quits, driver>>
    /\ pc' = "done"
    /\ UNCHANGED <<loginResult, loginSeen, profiles, idx, connectCalls, navs, pauses,
                   delay, runExc, c, nvars>>

\* --------------------------------------------------- connect_with_profile

\* connect_with_profile returns value: run prints the outcome and goes on to
\* the pause.  The locals die; the url, the counts and the result are kept.
\* (A local that is not read again is put back to 0 as soon as it is dead:
\* the list of add-note buttons once one was clicked, the textarea selector
\* once a textarea took the note, the note once it was handed over.)
ConnectReturns(cc, value) ==
    /\ c' = [NoCall EXCEPT !.profile_url = cc.profile_url,
                           !.gens = cc.gens,
                           !.requests = cc.requests,
                           !.sendClicked = cc.sendClicked,
                           !.raised = cc.raised,
                           !.abandoned = cc.abandoned,
                           !.taMatched = cc.taMatched,
                           !.sendSearches = cc.sendSearches,
                           !.sendClicks = cc.sendClicks,
                           !.untried = cc.nb - cc.bi,
                           !.result = IF value THEN "true" ELSE "false"]
    /\ pc' = "pause"

\* A statement of the call raised an exception.
Raised(cc) == [cc EXCEPT !.raised = TRUE]

\* The handler missing: the exception leaves connect_with_profile.
ConnectRaisesUncaught(cc) == RunRaises /\ c' = Raised(cc)

\* except Exception as e: print(...); return False (lines 304-306), for an
\* exception raised outside the loop over the connect buttons.
ConnectRaises(cc) == ConnectReturns(Raised(cc), FALSE)

\* click_button_safely(button, action_name) is entered with the locals cc.
ClickBegins(cc, action_name) ==
    /\ c' = [cc EXCEPT !.attempt = 0, !.action_name = action_name]
    /\ pc' = "click_check"

\* `continue` of `for button in connect_buttons`: the next candidate is
\* clicked, or the loop ends and connect returns False (lines 301-302).
NextConnectButton(cc) ==
    IF cc.bi < cc.nb
    THEN ClickBegins([cc EXCEPT !.bi = cc.bi + 1, !.na = 0, !.ai = 0,
                                !.ti = 0, !.note = <<>>, !.steps = {}],
                     "Connect")
    ELSE ConnectReturns(cc, FALSE)

\* `if not add_note_clicked` returning False instead of `continue`: the first
\* connect button without a clickable add-note button fails the whole call.
NextAddNoteButtonFails(cc) ==
    IF cc.ai < cc.na
    THEN c' = [cc EXCEPT !.ai = cc.ai + 1] /\ pc' = "c_note_text"
    ELSE ConnectReturns([cc EXCEPT !.abandoned = "add note"], FALSE)

\* `continue` of `for add_note_button in add_note_buttons`: the next one, or
\* `if not add_note_clicked: continue`.
NextAddNoteButton(cc) ==
    IF cc.ai < cc.na
    THEN c' = [cc EXCEPT !.ai = cc.ai + 1] /\ pc' = "c_note_text"
    ELSE NextConnectButton([cc EXCEPT !.abandoned = "add note"])

\* `if not textarea_found: continue` missing: the send step runs although no
\* textarea took the note.
NextTextareaSendAnyway(cc) ==
    IF cc.ti < NumTextareaSelectors
    THEN c' = [cc EXCEPT !.ti = cc.ti + 1] /\ pc' = "c_ta_presence"
    ELSE c' = [cc EXCEPT !.ti = 0, !.si = 1, !.ns = 0, !.sbi = 0,
                         !.sendSearches = cc.sendSearches + 1]
            /\ pc' = "s_find"

\* `continue` of `for selector in possible_textareas`: the next selector, or
\* `if not textarea_found: continue`.
NextTextarea(cc) ==
    IF cc.ti < NumTextareaSelectors
    THEN c' = [cc EXCEPT !.ti = cc.ti + 1, !.steps = @ \ {"value", "event"}]
            /\ pc' = "c_ta_presence"
    ELSE NextConnectButton(cc)

\* find_and_click_send_button ending with `return True`.
NextSendSelectorTrue(cc) ==
    IF cc.si < NumSendSelectors
    THEN c' = [cc EXCEPT !.si = cc.si + 1, !.ns = 0, !.sbi = 0] /\ pc' = "s_find"
    ELSE ConnectReturns(cc, TRUE)

\* `continue` where line 287 returns False: after a failed send step the next
\* connect button is tried.
NextSendSelectorNextButton(cc) ==
    IF cc.si < NumSendSelectors
    THEN c' = [cc EXCEPT !.si = cc.si + 1, !.ns = 0, !.sbi = 0] /\ pc' = "s_find"
    ELSE IF cc.bi < cc.nb
    THEN c' = [cc EXCEPT !.bi = cc.bi + 1, !.si = 0, !.ns = 0, !.sbi = 0,
                         !.steps = {}, !.attempt = 0,
                         !.action_name = "Connect"]
            /\ pc' = "click_check"
    ELSE ConnectReturns(cc, FALSE)

\* `continue` of `for selector in possible_selectors`: the next selector, or
\* find_and_click_send_button returns False and so does connect (line 287).
NextSendSelector(cc) ==
    IF cc.si < NumSendSelectors
    THEN c' = [cc EXCEPT !.si = cc.si + 1, !.ns = 0, !.sbi = 0] /\ pc' = "s_find"
    ELSE ConnectReturns(cc, FALSE)

\* `continue` of `for button in buttons` in find_and_click_send_button.
NextSendButton(cc) ==
    IF cc.sbi < cc.ns
    THEN c' = [cc EXCEPT !.sbi = cc.sbi + 1] /\ pc' = "s_text"
    ELSE NextSendSelector(cc)

\* textarea_found: time.sleep(2); self.find_and_click_send_button() is entered.
SendBegins(cc) ==
    NextSendSelector([cc EXCEPT !.ti = 0, !.si = 0,
                                !.sendSearches = cc.sendSearches + 1])

\* `if not add_note_clicked: continue` missing: the note is generated although
\* no add-note button was clicked.
ClickReturnsNoteUnchecked(cc, value) ==
    LET back == [cc EXCEPT !.attempt = 0, !.action_name = "none",
                           !.button_text = "none", !.hidden = 0,
                           !.excepts = 0, !.clicked = "none"]
    IN  CASE cc.action_name = "Connect" ->
                IF value
                THEN c' = [back EXCEPT !.abandoned = "none",
                                       !.steps = @ \cup {"connect"}]
                        /\ pc' = "c_wait_note"
                ELSE NextConnectButton([back EXCEPT !.abandoned = "none"])
          [] cc.action_name = "Add note" ->
                /\ c' = IF value
                        THEN [back EXCEPT !.steps = @ \cup {"add note"}]
                        ELSE back
                /\ pc' = "c_generate"
          [] cc.action_name = "Send" ->
                IF value THEN ConnectReturns(back, TRUE)
                ELSE NextSendButton(back)

\* click_button_safely returns value to the call that made it.
ClickReturns(cc, value) ==
    LET back == [cc EXCEPT !.attempt = 0, !.action_name = "none",
                           !.button_text = "none", !.hidden = 0,
                           !.excepts = 0, !.clicked = "none"]
    IN  CASE cc.action_name = "Connect" ->
                IF value
                THEN c' = [back EXCEPT !.abandoned = "none",
                                       !.steps = @ \cup {"connect"}]
                        /\ pc' = "c_wait_note"
                ELSE NextConnectButton([back EXCEPT !.abandoned = "none"])
          [] cc.action_name = "Add note" ->
                IF value
                THEN c' = [back EXCEPT !.steps = @ \cup {"add note"}]
                        /\ pc' = "c_generate"
                ELSE NextAddNoteButton(back)
          [] cc.action_name = "Send" ->
                IF value THEN ConnectReturns(back, TRUE)
                ELSE NextSendButton(back)

\* The end of one pass of `for attempt in range(max_attempts)`: the next
\* attempt, or `return False` after the loop.
NextAttempt(cc) ==
    IF cc.attempt < max_attempts - 1
    THEN c' = [cc EXCEPT !.attempt = cc.attempt + 1] /\ pc' = "click_check"
    ELSE c' = [cc EXCEPT !.clicked = "false"] /\ pc' = "click_return"

\* The handler sleeping after every attempt, the last one included.
AttemptRaisesAlwaysWaits(cc) ==
    /\ c' = [Raised(cc) EXCEPT !.excepts = cc.excepts + 1]
    /\ pc' = "click_backoff"

\* except Exception as e: a statement of the pass raised; the handler waits
\* (time.sleep(2)) unless this was the last attempt, and the pass ends.
AttemptRaises(cc) ==
    LET failed == [Raised(cc) EXCEPT !.excepts = cc.excepts + 1]
    IN  IF cc.attempt < max_attempts - 1
        THEN c' = failed /\ pc' = "click_backoff"
        ELSE NextAttempt(failed)

\* self.driver.get(profile_url); an exception is caught at line 304.
ConnectGet ==
    /\ pc = "c_get"
    /\ navs' = navs + 1
    /\ \E ok \in BOOLEAN :
        IF ok THEN pc' = "c_find" /\ c' = [c EXCEPT !.navigated = TRUE]
        ELSE ConnectRaises(c)
    /\ DriverOp
    /\ UNCHANGED <<driver, quits, loginResult, loginSeen, profiles, idx, connectCalls,
                   pauses, delay, runExc, nvars>>

\* connect_buttons = self.driver.find_elements(...); if connect_buttons: ...
ConnectFind ==
    /\ pc = "c_find"
    /\ \/ \E n \in 0..MaxButtons :
            IF n = 0 THEN ConnectReturns(c, FALSE)
            ELSE NextConnectButton([c EXCEPT !.nb = n])
       \/ ConnectRaises(c)               \* find_elements raises
    /\ DriverOp
    /\ UNCHANGED <<driver, quits, loginResult, loginSeen, profiles, idx, connectCalls,
                   navs, pauses, delay, runExc, nvars>>

\* button.is_displayed() and button.is_enabled(): true, false (the pass ends
\* without a click), or an exception (the handler ends the pass).
ClickCheck ==
    /\ pc = "click_check"
    /\ \E o \in {"true", "false", "raise"} :
        IF o = "true" THEN pc' = "click_scroll" /\ UNCHANGED c
        ELSE IF o = "false"
        THEN NextAttempt([c EXCEPT !.hidden = c.hidden + 1])
        ELSE AttemptRaises(c)
    /\ DriverOp
    /\ UNCHANGED <<driver, quits, loginResult, loginSeen, profiles, idx, connectCalls,
                   navs, pauses, delay, runExc, nvars>>

\* self.driver.execute_script("arguments[0].scrollIntoView(true);", button)
ClickScroll ==
    /\ pc = "click_scroll"
    /\ \E ok \in BOOLEAN :
        IF ok THEN pc' = "click_click" /\ UNCHANGED c ELSE AttemptRaises(c)
    /\ DriverOp
    /\ UNCHANGED <<driver, quits, loginResult, loginSeen, profiles, idx, connectCalls,
                   navs, pauses, delay, runExc, nvars>>

\* self.driver.execute_script("arguments[0].click();", button); return True
ClickClick ==
    /\ pc = "click_click"
    /\ \E ok \in BOOLEAN :
        IF ok
        THEN /\ c' = [c EXCEPT !.sendClicked =
                                @ \/ (c.action_name = "Send"
                                        /\ c.button_text = "match"),
                            !.sendClicks =
                                @ + (IF c.action_name = "Send"
                                        /\ c.button_text = "match"
                                     THEN 1 ELSE 0),
                            !.clicked = "true"]
             /\ pc' = "click_return"
        ELSE AttemptRaises(c)
    /\ DriverOp
    /\ UNCHANGED <<driver, quits, loginResult, loginSeen, profiles, idx, connectCalls,
                   navs, pauses, delay, runExc, nvars>>

\* time.sleep(2); continue: the handler's wait before the next attempt.
ClickBackoff ==
    /\ pc = "click_backoff"
    /\ NextAttempt(c)
    /\ NoDriverOp
    /\ UNCHANGED <<driver, quits, loginResult, loginSeen, profiles, idx, connectCalls,
                   navs, pauses, delay, runExc, nvars>>

\* click_button_safely hands its result to the statement that called it.
ClickReturn ==
    /\ pc = "click_return"
    /\ ClickReturns(c, c.clicked = "true")
    /\ NoDriverOp
    /\ UNCHANGED <<driver, quits, loginResult, loginSeen, profiles, idx, connectCalls,
                   navs, pauses, delay, runExc, nvars>>

\* add_note_buttons = self.wait.until(EC.presence_of_all_elements_located(...)):
\* a non-empty list, or TimeoutException or another exception (lines 289-295).
WaitAddNote ==
    /\ pc = "c_wait_note"
    /\ \/ \E n \in 1..MaxButtons : NextAddNoteButton([c EXCEPT !.na = n])
       \/ NextConnectButton([Raised(c) EXCEPT !.abandoned = "add note"])
    /\ DriverOp
    /\ UNCHANGED <<driver, quits, loginResult, loginSeen, profiles, idx, connectCalls,
                   navs, pauses, delay, runExc, nvars>>

\* button_text = add_note_button.text.lower();
\* if 'note' in button_text or 'message' in button_text: click it
AddNoteText ==
    /\ pc = "c_note_text"
    /\ \E o \in {"match", "nomatch", "raise"} :
        IF o = "match"
        THEN ClickBegins([c EXCEPT !.button_text = "match"], "Add note")
        ELSE IF o = "nomatch" THEN NextAddNoteButton(c)
        ELSE NextAddNoteButton(Raised(c))         \* bare except: continue
    /\ DriverOp
    /\ UNCHANGED <<driver, quits, loginResult, loginSeen, profiles, idx, connectCalls,
                   navs, pauses, delay, runExc, nvars>>

\* note = self.generate_connection_note(profile_data)
Generate ==
    /\ pc = "c_generate"
    /\ \E reply \in RunReplies :
        LET g == generate_connection_note(profiles[idx], reply)
        IN  IF g.raised THEN NextConnectButton(Raised(c))   \* line 293
            ELSE NextTextarea([c EXCEPT !.note = g.note,
                                        !.steps = @ \cup {"generate"},
                                        !.gens = @ + 1,
                                        !.requests = @ + (IF g.requested THEN 1 ELSE 0),
                                        !.na = 0, !.ai = 0, !.ti = 0])
    /\ NoDriverOp
    /\ UNCHANGED <<driver, quits, loginResult, loginSeen, profiles, idx, connectCalls,
                   navs, pauses, delay, runExc, nvars>>

\* response = requests.post(url, json=data): no timeout is given, so when the
\* service accepts the request and never answers, the call does not return
\* and nothing in the program ends it.
GeneratePostBlocks ==
    /\ pc = "c_generate"
    /\ {"name", "current_position"} \subseteq DOMAIN profiles[idx]
    /\ pc' = "c_post_wait"
    /\ c' = [c EXCEPT !.requests = @ + 1, !.na = 0, !.ai = 0, !.ti = 0]
    /\ NoDriverOp
    /\ UNCHANGED <<driver, quits, loginResult, loginSeen, profiles, idx, connectCalls,
                   navs, pauses, delay, runExc, nvars>>

\* The steps on one textarea selector: wait for presence, wait for
\* clickability, scroll into view, assign the value, dispatch the input
\* event.  An exception in any goes to the next selector (lines 269-271).
TextareaSteps == <<"c_ta_presence", "c_ta_clickable", "c_ta_scroll",
                   "c_ta_value", "c_ta_event">>

TextareaStep ==
    /\ \E k \in 1..Len(TextareaSteps) :
        /\ pc = TextareaSteps[k]
        /\ \E ok \in BOOLEAN :
            IF ~ok THEN NextTextarea(Raised(c))
            ELSE IF k < Len(TextareaSteps)
            THEN pc' = TextareaSteps[k + 1]
                    /\ c' = IF TextareaSteps[k] = "c_ta_value"
                            THEN [c EXCEPT !.note = <<>>,
                                           !.steps = @ \cup {"value"}]
                            ELSE IF TextareaSteps[k] = "c_ta_presence"
                            THEN [c EXCEPT !.taMatched = TRUE]
                            ELSE c
            ELSE SendBegins([c EXCEPT !.steps = @ \cup {"event"}])
                                                        \* textarea_found
    /\ DriverOp
    /\ UNCHANGED <<driver, quits, loginResult, loginSeen, profiles, idx, connectCalls,
                   navs, pauses, delay, runExc, nvars>>

\* buttons = self.driver.find_elements(By.CSS_SELECTOR, selector)
SendFind ==
    /\ pc = "s_find"
    /\ \/ \E n \in 0..MaxButtons : NextSendButton([c EXCEPT !.ns = n])
       \/ NextSendSelector(Raised(c))     \* find_elements raises
    /\ DriverOp
    /\ UNCHANGED <<driver, quits, loginResult, loginSeen, profiles, idx, connectCalls,
                   navs, pauses, delay, runExc, nvars>>

\* button_text = button.text.lower();
\* if 'send' in button_text or 'done' in button_text: click it
SendText ==
    /\ pc = "s_text"
    /\ \E o \in {"match", "nomatch", "raise"} :
        IF o = "match"
        THEN ClickBegins([c EXCEPT !.button_text = "match"], "Send")
        ELSE IF o = "nomatch" THEN NextSendButton(c)
        ELSE NextSendButton(Raised(c))            \* bare except: continue
    /\ DriverOp
    /\ UNCHANGED <<driver, quits, loginResult, loginSeen, profiles, idx, connectCalls,
                   navs, pauses, delay, runExc, nvars>>

Next ==
    \/ SetupInstall \/ SetupChrome \/ SetupScript
    \/ LoginStep \/ LoginUrlCheck
    \/ LoadProfiles \/ LoopEnds \/ EnterProfile
    \/ ConnectGet \/ ConnectFind
    \/ ClickCheck \/ ClickScroll \/ ClickClick \/ ClickBackoff \/ ClickReturn
    \/ WaitAddNote \/ AddNoteText \/ Generate \/ GeneratePostBlocks
    \/ TextareaStep
    \/ SendFind \/ SendText
    \/ PauseBegins \/ PauseEnds
    \/ RunExcept \/ RunFinally

Spec == Init /\ [][Next]_vars

\* ------------------------------------------------------- claims on the run

\* The positions inside connect_with_profile and the helpers it calls.
ConnectPcs ==
    {"c_get", "c_find", "click_check", "click_scroll", "click_click",
     "click_backoff", "click_return", "c_wait_note", "c_note_text",
     "c_generate", "c_post_wait", "c_ta_presence",
     "c_ta_clickable", "c_ta_scroll", "c_ta_value", "c_ta_event", "s_find",
     "s_text"}

\* C1: after a successful login, a run over N >= 1 profiles issues exactly
\* N - 1 pauses, none after the last profile's connect has returned, each of
\* 20 to 40 seconds.  (Stated for the runs in which no exception reached run's
\* handler.)
C1_PausesBetweenProfiles ==
    /\ pc = "sleeping" => delay >= DelayMin /\ delay <= DelayMax
    /\ pc = "done" /\ loginResult = "true" /\ ~runExc /\ Len(profiles) >= 1
            => pauses = Len(profiles) - 1

\* C2: if login returns false, no profile is processed (no navigation to a
\* profile, no connect call, no generation request, no pause), and the driver
\* has been quit when run ends.
C2_LoginFailureAborts ==
    loginResult = "false"
        => /\ pc \in {"finally", "done"}
           /\ idx = 0
           /\ connectCalls = <<>>
           /\ navs = 0
           /\ c.gens = 0 /\ c.requests = 0
           /\ pauses = 0
           /\ pc = "done" => driver = "quit" /\ quits = 1

\* C2's case: login returned false and run has ended.
C2_Witness == loginResult = "false" /\ pc = "done" /\ quits = 1

\* C3: on every exit path of run, a driver that was created has been quit
\* when run ends, it is quit exactly once, and no driver operation follows
\* the quit.
C3_DriverTeardown ==
    /\ quits <= 1
    /\ ~opAfterQuit
    /\ driver = "quit" <=> quits = 1
    /\ pc = "done" => driver \in {"none", "quit"}

\* C3's case: run ended through its exception handler, after a profile had
\* been processed, and the driver is quit.
C3_Witness ==
    /\ pc = "done"
    /\ runExc
    /\ connectCalls # <<>>
    /\ driver = "quit"

\* A step from inside connect stays inside it or is its return of a boolean,
\* true only when the send click went through.
ConnectStaysOrReturns ==
    pc \in ConnectPcs
        => \/ pc' \in ConnectPcs
           \/ /\ pc' = "pause"
              /\ c'.result \in {"true", "false"}
              /\ c'.result = "true" => c'.sendClicked

\* C4: connect never propagates an exception: from every position inside
\* it, whatever raises, the next step is inside it or is its return of a
\* boolean, which is true only when the send click succeeded.
C4_ConnectNeverRaises == [][ConnectStaysOrReturns]_vars

\* C4's case: a connect call in which a statement raised after a note had
\* been generated has returned false.
C4_Witness ==
    /\ pc = "pause"
    /\ c.raised
    /\ c.gens >= 1
    /\ c.result = "false"

\* C5: connect returns true exactly when the send step succeeded in that
\* call: the click on a send button whose text matched went through.
C5_TrueIffSendClicked ==
    /\ c.result # "none" => (c.result = "true" <=> c.sendClicked)
    /\ c.result = "none" /\ c.sendClicked
        => pc = "click_return" /\ c.clicked = "true"

\* C5's case: connect returned true on its second connect-button candidate.
C5_Witness ==
    /\ pc = "pause"
    /\ c.result = "true"
    /\ c.sendClicked
    /\ c.gens = 2

\* C6: after a successful login every profile is processed exactly once, in
\* input order, whatever happened to the earlier ones: an exception raised
\* while one profile is processed does not stop the remaining ones.
C6_EveryProfileProcessed ==
    pc = "done" /\ loginResult = "true" /\ profiles # <<>>
        => /\ idx = Len(profiles)
           /\ \A k \in 1..Len(connectCalls) : connectCalls[k] <= Len(profiles)
           /\ \A k \in 1..(Len(connectCalls) - 1) :
                connectCalls[k] < connectCalls[k + 1]

\* The positions inside click_button_safely.
ClickPcs ==
    {"click_check", "click_scroll", "click_click", "click_backoff",
     "click_return"}

\* The call stands between a successful Connect click and the end of the
\* add-note step: the wait for the add-note buttons, their text filter, or a
\* click on one of them.
InAddNoteStep(p, cc) ==
    \/ p \in {"c_wait_note", "c_note_text"}
    \/ p \in ClickPcs /\ cc.action_name = "Add note"

\* A step that ends the add-note step of connect button bi without a clicked
\* add-note button goes to connect button bi + 1, and ends the call (with
\* False) only if bi was the last one.
AddNoteFailureEscalates ==
    InAddNoteStep(pc, c) /\ ~InAddNoteStep(pc', c') /\ pc' # "c_generate"
        => IF c.bi < c.nb
           THEN /\ pc' = "click_check"
                /\ c'.action_name = "Connect"
                /\ c'.bi = c.bi + 1
                /\ c'.nb = c.nb
                /\ c'.result = "none"
           ELSE /\ pc' = "pause"
                /\ c'.result = "false"

\* C14: when no add-note button can be clicked after the click on connect
\* button i succeeded (none with "note" or "message" in its text is clickable,
\* or the wait times out), connect goes on to connect button i + 1; it
\* returns False from there only after the last connect button.
C14_AddNoteEscalation == [][AddNoteFailureEscalates]_vars

\* C14's case: the second connect button is being clicked because the first
\* one, clicked all right, gave no clickable add-note button.
C14_Witness ==
    /\ pc = "click_check"
    /\ c.action_name = "Connect"
    /\ c.bi = 2
    /\ c.abandoned = "add note"

\* C15: click_button_safely on a button that is not displayed or not enabled
\* fails at once: after that one test it returns False, with no further
\* attempt, no second test and no script.
C15_HiddenFailsAtOnce ==
    c.hidden > 0
        => /\ pc = "click_return"
           /\ c.clicked = "false"
           /\ c.hidden = 1

\* C16: click_button_safely makes at most max_attempts attempts; it returns
\* True at the first attempt whose scripts raise nothing, sleeps its backoff
\* only between two attempts (never after the last), and returns False
\* once all attempts have raised.
C16_ClickAttempts ==
    /\ pc \in ClickPcs => c.attempt + 1 <= max_attempts
    /\ pc = "click_backoff"
        => c.attempt + 1 < max_attempts /\ c.excepts >= 1
    /\ pc = "click_return" /\ c.clicked = "true"
        => c.excepts + c.hidden = c.attempt
    /\ pc = "click_return" /\ c.clicked = "false"
        => c.attempt + 1 = max_attempts /\ c.excepts + c.hidden = max_attempts
    /\ pc = "click_return" /\ c.excepts = max_attempts => c.clicked = "false"
    /\ pc = "click_return" => c.clicked \in {"true", "false"}

\* C16's case: all three attempts raised and click_button_safely returns False.
C16_Witness ==
    /\ pc = "click_return"
    /\ c.clicked = "false"
    /\ c.excepts = max_attempts

\* C17: every wait made during a connect call is bounded, so the call always
\* goes on and in the end returns, even when the driver or the generation
\* service never answers: at no position inside connect is the program left
\* without a next step.
C17_ConnectNeverBlocks == pc \in ConnectPcs => ENABLED Next

\* The positions inside find_and_click_send_button, its clicks apart.
SendPcs == {"s_find", "s_text"}

\* The send step of the call is running: the search for a send button or a
\* click on one.
InSendStep(p, cc) ==
    \/ p \in SendPcs
    \/ p \in ClickPcs /\ cc.action_name = "Send"

\* C18: for the connect button in hand the steps come in one order: the note
\* is requested only after the click on the connect button and then the
\* click on an add-note button succeeded, it is put into a textarea only
\* after it was generated, the send search runs only after the value was
\* assigned to a textarea and the input event dispatched on it; and nothing
\* is done before the profile page was loaded.
C18_StepOrder ==
    /\ pc \in ConnectPcs \ {"c_get"} => c.navigated
    /\ c.steps # {} => c.navigated
    /\ "add note" \in c.steps => "connect" \in c.steps
    /\ pc \in {"c_generate", "c_post_wait"} \/ "generate" \in c.steps
        => {"connect", "add note"} \subseteq c.steps
    /\ pc \in {"c_ta_presence", "c_ta_clickable", "c_ta_scroll", "c_ta_value",
               "c_ta_event"}
        => "generate" \in c.steps
    /\ "value" \in c.steps => "generate" \in c.steps
    /\ "event" \in c.steps => "value" \in c.steps
    /\ InSendStep(pc, c)
        => c.steps = {"connect", "add note", "generate", "value", "event"}

\* C18's case: the send search runs for the second connect button, after all
\* the steps before it were done for that button.
C18_Witness ==
    /\ pc = "s_find"
    /\ c.bi = 2
    /\ c.navigated
    /\ c.steps = {"connect", "add note", "generate", "value", "event"}

\* C19: in one connect call the send search is entered at most once and at
\* most one click on a send button goes through: once the send step has
\* begun the call stays in it until it returns, and tries no further connect
\* button.
C19_OneSendStep ==
    /\ c.sendSearches <= 1
    /\ c.sendClicks <= 1
    /\ c.sendSearches > 0 /\ c.result = "none" => InSendStep(pc, c)
    /\ c.sendSearches = 0 => c.sendClicks = 0

\* C19's case: the send step failed while a connect button was still untried,
\* and the call returned False without trying it.
C19_Witness ==
    /\ pc = "pause"
    /\ c.result = "false"
    /\ c.sendSearches = 1
    /\ c.untried = 1

\* C11: if no selector of the textarea list locates an element during a
\* connect call, the send-button search is never entered and connect returns
\* false, however many connect buttons there are.
C11_NoTextareaNoSend ==
    ~c.taMatched
        => /\ c.sendSearches = 0
           /\ pc \notin SendPcs
           /\ c.action_name # "Send"
           /\ ~c.sendClicked
           /\ c.result # "true"

\* C11's case: a call in which a note was generated for two connect buttons
\* and no textarea selector ever matched has returned false.
C11_Witness ==
    /\ pc = "pause"
    /\ c.gens = 2
    /\ ~c.taMatched
    /\ c.sendSearches = 0
    /\ c.result = "false"

\* What a call of run hands back to main: every path of run ends at the bare
\* `return` of line 314 or at the end of the body, and the per-profile results
\* are printed (lines 322, 324), never collected.
RunReturnValue == IF pc = "done" THEN "None" ELSE "running"

\* C12: for an empty profile list, after a successful login, run calls
\* connect zero times, makes no pause, and returns an empty sequence of
\* outcomes.
C12_EmptyRun ==
    pc = "done" /\ loginResult = "true" /\ ~runExc /\ profiles = <<>>
        => /\ connectCalls = <<>>
           /\ pauses = 0
           /\ RunReturnValue = "empty sequence"

IsAlpha(ch) == (ch >= 65 /\ ch <= 90) \/ (ch >= 97 /\ ch <= 122)

\* A character of a scheme after its first: a letter, a digit, "+", "-", ".".
IsSchemeChar(ch) == IsAlpha(ch) \/ (ch >= 48 /\ ch <= 57) \/ ch \in {43, 45, 46}

\* url begins with a scheme and "://".
HasScheme(url) ==
    \E i \in 1..(Len(url) - 3) :
        /\ SubSeq(url, i + 1, i + 3) = <<58, 47, 47>>
        /\ IsAlpha(url[1])
        /\ \A j \in 1..i : IsSchemeChar(url[j])

\* C20: the url that connect navigates to always has a scheme: a url without
\* one is loaded with "https://" put before it, a url with one is loaded as
\* it is, and normalising a normalised url changes nothing.
C20_UrlHasScheme ==
    /\ nPc \in {"navigated", "renavigated"}
        => /\ HasScheme(nOnce)
           /\ ~HasScheme(nText) => nOnce = HttpsScheme \o nText
           /\ HasScheme(nText) => nOnce = nText
    /\ nPc = "renavigated" => nTwice = nOnce

\* ------------------------------------------------------ claims on the note

IsBMPOnly(s) == \A i \in 1..Len(s) : s[i] >= 0 /\ s[i] <= LastBMP

HasWhitespaceRun(s) == \E i \in 1..(Len(s) - 1) : IsSpace(s[i]) /\ IsSpace(s[i + 1])

CompleteProfile(p) == {"name", "current_position"} \subseteq DOMAIN p

\* The cases claim C8 names: the backend unreachable, a non-200 status, or an
\* exception while building the prompt or decoding the response.
GenerationFails(p, reply) ==
    \/ ~CompleteProfile(p)
    \/ reply.kind = "unreachable"
    \/ reply.kind = "http" /\ reply.status # StatusOK
    \/ reply.kind = "http" /\ reply.body \in {"notjson", "nonstring"}

Http200Text(p, reply) ==
    /\ CompleteProfile(p)
    /\ reply.kind = "http"
    /\ reply.status = StatusOK
    /\ reply.body = "text"

\* C7: every note generate returns, on every path, has at most 200 characters
\* and no code point outside the Basic Multilingual Plane.
C7_NoteBounded ==
    nPc = "generated" => Len(nGen.note) <= NoteLimit /\ IsBMPOnly(nGen.note)

\* C7's case: an HTTP 200 response longer than the limit that holds non-BMP
\* code points has been turned into a note.
C7_Witness ==
    /\ nPc = "generated"
    /\ Http200Text(nProfile, nReply)
    /\ Len(nReply.response) > NoteLimit
    /\ ~IsBMPOnly(nReply.response)
    /\ Len(nGen.note) = NoteLimit

\* C8: when the backend is unreachable, answers a non-200 status, or the
\* prompt or the decoding raises (a profile without name or current_position
\* included), generate returns exactly the fallback note and does not raise.
C8_FallbackOnFailure ==
    nPc = "generated" /\ GenerationFails(nProfile, nReply)
        => nGen.note = FallbackNote /\ ~nGen.raised

\* C8's case: a profile without a name, and a backend that is unreachable.
C8_Witness ==
    /\ nPc = "generated"
    /\ "name" \notin DOMAIN nProfile
    /\ nReply.kind = "unreachable"
    /\ nGen.note = FallbackNote

\* C9: the sanitizer's output holds no non-BMP code point and no run of two or
\* more whitespace characters, and sanitizing it again changes nothing.
C9_Sanitizer ==
    /\ nPc \in {"cleaned", "recleaned"}
            => IsBMPOnly(nOnce) /\ ~HasWhitespaceRun(nOnce)
    /\ nPc = "recleaned" => nTwice = nOnce

\* C9's case: a text with a non-BMP code point and a whitespace run has been
\* sanitized twice.
C9_Witness ==
    /\ nPc = "recleaned"
    /\ ~IsBMPOnly(nText)
    /\ HasWhitespaceRun(nText)
    /\ nOnce # <<>>

\* C10: on HTTP 200 generate returns the first 200 characters of the sanitized
\* backend response (all of it when it has at most 200), and warns exactly
\* when the sanitized response is longer than 200 characters.
C10_Http200Note ==
    nPc = "generated" /\ Http200Text(nProfile, nReply)
        => LET sanitized == clean_text(nReply.response)
           IN  /\ nGen.note = Take(sanitized, NoteLimit)
               /\ Len(sanitized) <= NoteLimit => nGen.note = sanitized
               /\ nGen.warned <=> Len(sanitized) > NoteLimit

\* C10's case: a response whose sanitized form is longer than the limit was
\* cut to the limit with the warning, although it began with whitespace.
C10_Witness ==
    /\ nPc = "generated"
    /\ Http200Text(nProfile, nReply)
    /\ nReply.response # <<>>
    /\ IsSpace(nReply.response[1])
    /\ nGen.warned
    /\ Len(nGen.note) = NoteLimit

====
